---- MODULE Spec2Model ----
(***************************************************************************)
(* The AddressSanitizer allocator of asan/asan_allocator.cc: size-class    *)
(* freelists, the live list, the quarantine ring, the chunk headers kept   *)
(* in the mapped memory itself, and the shadow map.                        *)
(*                                                                         *)
(* Memory is an array of machine words indexed by byte address; a chunk    *)
(* header is the five words at the chunk's base, exactly as struct Chunk   *)
(* lays them out, so a header, a MEMALIGN shim and user data are all read  *)
(* and written through the same array.  The shadow map holds one byte per  *)
(* 2^kShadowShift bytes of memory.                                         *)
(*                                                                         *)
(* The address space is scaled down: the constants that live in headers    *)
(* outside this file (word, page and redzone sizes) are given the smallest *)
(* values that keep the relations the code relies on (a chunk header fits  *)
(* in one redzone, a redzone is at least two shadow granules, a page is a  *)
(* multiple of a redzone), and kMinMmapSize is kPageSize * 4 instead of    *)
(* kPageSize * 128.  Request sizes stay far below the word's range, so no  *)
(* size computation wraps.                                                 *)
(***************************************************************************)
EXTENDS Integers, Sequences, FiniteSets, TLC

(***************************************************************************)
(* Bounds of the model.                                                    *)
(***************************************************************************)
\* number of pages of address space the OS can hand out
NumPages == 11
\* number of public operations in one run
MaxOps == 3
\* number of operations each thread starts in the concurrent specification
MaxThreadOps == 2
\* number of operations in one run of malloc and free only
MaxDeepOps == 7
\* number of operations in one run of malloc/free pairs of one size class
MaxPairOps == 8

(***************************************************************************)
(* Program constants.                                                      *)
(***************************************************************************)
WORDSIZE == 32
kWordSize == WORDSIZE \div 8
kShadowShift == 3
kPageSize == 64
kMinRedzone == 16
kRedzone == kMinRedzone * 2
kMinAllocSize == kRedzone * 2
kMinMmapSize == kPageSize * 4

CHUNK_AVAILABLE == 1463508197
CHUNK_ALLOCATED == 839129654
CHUNK_QUARANTINE == 427342563
\* 0xDC68ECD8 with the top bit dropped, to fit the model checker's 32-bit integers
CHUNK_MEMALIGN == 1550380248

\* offsets of the fields of struct Chunk
OffState == 0 * kWordSize
OffAllocated == 1 * kWordSize
OffUsed == 2 * kWordSize
OffNext == 3 * kWordSize
OffPrev == 4 * kWordSize

NULL == 0
\* the value a helper yields when one of its CHECKs fails
CheckFailed == 0 - 1

AddrBase == kPageSize
AddrTop == AddrBase + NumPages * kPageSize
WordAddrs == {a \in AddrBase .. (AddrTop - 1) : a % kWordSize = 0}

(***************************************************************************)
(* Inputs of the public operations.                                        *)
(***************************************************************************)
Sizes == {5, 33}
Aligns == {0, 16, 64, 128}
PosixAligns == {0, 64}
PosixSizes == {0, 5}
QuarantineCaps == {64, 128}
PairSizes == {5, 33, 97}
PairCaps == {64, 128, 512}
DeepCaps == {128, 192}
DataBytes == {7}
Placements == {"low", "high"}

Max(a, b) == IF a >= b THEN a ELSE b
Min(a, b) == IF a <= b THEN a ELSE b

(***************************************************************************)
(* Bit arithmetic on unsigned machine words.                               *)
(***************************************************************************)
RECURSIVE BitAnd(_, _)
BitAnd(x, y) ==
  IF x = 0 \/ y = 0 THEN 0
  ELSE (x % 2) * (y % 2) + 2 * BitAnd(x \div 2, y \div 2)

\* a & (x - 1): for x = 0 the subtraction wraps to all ones
AndDec(a, x) == IF x = 0 THEN a ELSE BitAnd(a, x - 1)

RECURSIVE BitLen(_)
BitLen(x) == IF x = 0 THEN 0 ELSE 1 + BitLen(x \div 2)

RECURSIVE Ctz(_)
Ctz(x) == IF x % 2 = 1 THEN 0 ELSE 1 + Ctz(x \div 2)

IsAligned(a, alignment) == AndDec(a, alignment) = 0

IsWordAligned(a) == IsAligned(a, kWordSize)

IsPowerOfTwo(x) == AndDec(x, x) = 0

Log2(x) == IF ~IsPowerOfTwo(x) \/ x = 0 THEN CheckFailed ELSE Ctz(x)

RoundUptoRedzone(size) == ((size + kRedzone - 1) \div kRedzone) * kRedzone

RoundUptoPowerOfTwo(size) ==
  IF size = 0 THEN CheckFailed
  ELSE IF IsPowerOfTwo(size) THEN size
  ELSE LET up == BitLen(size)
       IN IF size < 2^up /\ size > 2^(up - 1) THEN 2^up ELSE CheckFailed

(***************************************************************************)
(* The heap: every operation below maps a heap record to a heap record.    *)
(*   mem               memory words by address (headers, shims, user data) *)
(*   shadow            shadow bytes by shadow index                        *)
(*   maps              the mappings obtained from the OS                   *)
(*   chunks            MallocInfo::chunks, the freelist heads              *)
(*   quarantine_, quarantine_size_, malloced_items_   as in MallocInfo     *)
(*   cap               __asan_flag_quarantine_size                         *)
(*   place             where the OS puts fresh mappings in this run        *)
(*   abort             "none", or why the process died                     *)
(*   carved            every chunk GetNewChunks has constructed            *)
(*   log               the writes of chunk_state by the running operation  *)
(***************************************************************************)
MemToShadow(a) == a \div (2^kShadowShift)

ShadowIdx == 0 .. MemToShadow(AddrTop + 2 * kRedzone)

Abort(h, why) == [h EXCEPT !.abort = why]

Ld(h, addr) == h.mem[addr]

St(h, addr, v) == [h EXCEPT !.mem[addr] = v]

\* m->chunk_state = s; the write is appended to the log of the running operation
SetState(h, m, s) ==
  [h EXCEPT !.mem[m + OffState] = s,
            !.log = Append(@, [chunk |-> m, from |-> h.mem[m + OffState], to |-> s])]

\* byte i (little endian) of the word w, and w with that byte replaced
ByteOf(w, i) == (w \div (256^i)) % 256
WithByte(w, i, b) == w - ByteOf(w, i) * (256^i) + b * (256^i)

LdByte(h, addr) == ByteOf(h.mem[addr - (addr % kWordSize)], addr % kWordSize)

StByte(h, addr, b) ==
  LET wa == addr - (addr % kWordSize)
  IN St(h, wa, WithByte(h.mem[wa], addr % kWordSize, b))

\* the memset of PoisonShadow: shadow bytes shadow_beg .. shadow_end - 1
RECURSIVE MemsetShadow(_, _, _, _)
MemsetShadow(sh, shadow_beg, shadow_end, poison) ==
  IF shadow_beg >= shadow_end THEN sh
  ELSE MemsetShadow([sh EXCEPT ![shadow_beg] = poison], shadow_beg + 1, shadow_end, poison)

PoisonShadow(h, m, size, poison) ==
  IF h.abort # "none" THEN h
  ELSE IF ~IsAligned(m, 2^kShadowShift) \/ ~IsAligned(m + size, 2^kShadowShift)
  THEN Abort(h, "check")
  ELSE [h EXCEPT !.shadow = MemsetShadow(@, MemToShadow(m), MemToShadow(m + size), poison)]

\* the page-aligned places where the OS can put a fresh mapping of size bytes
FreeBases(h, size) ==
  {b \in {AddrBase + k * kPageSize : k \in 0 .. (NumPages - 1)} :
     /\ b + size <= AddrTop
     /\ \A mp \in h.maps : b + size <= mp.base \/ mp.base + mp.size <= b}

SetMin(S) == CHOOSE x \in S : \A y \in S : x <= y
SetMax(S) == CHOOSE x \in S : \A y \in S : x >= y

\* yields [h, res]; the OS places the mapping lowest or highest, as place says.
\* The pages of a fresh anonymous mapping read as zero: memory that was never
\* mapped holds zero in mem, and no mapping is ever returned to the OS.
MmapNewPages(h, size) ==
  IF h.abort # "none" THEN [h |-> h, res |-> NULL]
  ELSE IF size % kPageSize # 0 THEN [h |-> Abort(h, "check"), res |-> NULL]
  ELSE LET free == FreeBases(h, size)
       IN IF free = {} THEN [h |-> Abort(h, "oom"), res |-> NULL]
          ELSE LET res == IF h.place = "low" THEN SetMin(free) ELSE SetMax(free)
                   h1 == [h EXCEPT !.maps = @ \cup {[base |-> res, size |-> size]}]
               IN [h |-> PoisonShadow(h1, res, size, 255), res |-> res]

(***************************************************************************)
(* class MallocInfo.                                                       *)
(***************************************************************************)
\* the loop of GetNewChunks: chunk i of the mapping is pushed on chunks[idx]
RECURSIVE CarveChunks(_, _, _, _, _, _)
CarveChunks(h, mem, size, idx, i, n) ==
  IF i >= n THEN h
  ELSE LET m == mem + i * size
           h1 == SetState(h, m, CHUNK_AVAILABLE)
           h2 == St(h1, m + OffAllocated, size)
           h3 == St(h2, m + OffNext, h2.chunks[idx])
           h4 == [h3 EXCEPT !.chunks[idx] = m,
                            !.carved = @ \cup {[base |-> m, size |-> size]}]
       IN CarveChunks(h4, mem, size, idx, i + 1, n)

\* GetNewChunks mapping the bytes of one chunk only
GetNewChunksOneChunk(h, size) ==
  LET idx == Log2(size)
  IN IF h.abort # "none" THEN h
     ELSE IF idx = CheckFailed THEN Abort(h, "check")
     ELSE IF h.chunks[idx] # NULL THEN Abort(h, "check")
     ELSE LET r == MmapNewPages(h, size)
          IN IF r.h.abort # "none" THEN r.h
             ELSE CarveChunks(r.h, r.res, size, idx, 0, 1)

GetNewChunks(h, size) ==
  LET idx == Log2(size)
  IN IF h.abort # "none" THEN h
     ELSE IF idx = CheckFailed THEN Abort(h, "check")
     ELSE IF h.chunks[idx] # NULL THEN Abort(h, "check")
     ELSE IF ~IsPowerOfTwo(size) \/ ~IsPowerOfTwo(kMinMmapSize) THEN Abort(h, "check")
     ELSE LET mmap_size == Max(size, kMinMmapSize)
          IN IF ~IsPowerOfTwo(mmap_size) THEN Abort(h, "check")
             ELSE LET r == MmapNewPages(h, mmap_size)
                  IN IF r.h.abort # "none" THEN r.h
                     ELSE CarveChunks(r.h, r.res, size, idx, 0, mmap_size \div size)

\* AllocateChunk from "Chunk *m = chunks[idx]" on, h0 the heap after the
\* refill; yields [h, m]
TakeHead(h0, idx) ==
  LET m == h0.chunks[idx]
  IN IF h0.abort # "none" THEN [h |-> h0, m |-> NULL]
     ELSE IF m = NULL THEN [h |-> Abort(h0, "check"), m |-> NULL]
     ELSE LET h1 == [h0 EXCEPT !.chunks[idx] = Ld(h0, m + OffNext)]
              h2 == St(St(h1, m + OffNext, NULL), m + OffPrev, NULL)
          IN IF Ld(h2, m + OffState) # CHUNK_AVAILABLE
             THEN [h |-> Abort(h2, "check"), m |-> NULL]
             ELSE LET h3 == SetState(h2, m, CHUNK_ALLOCATED)
                      h4 == IF h3.malloced_items_ # NULL
                            THEN St(h3, h3.malloced_items_ + OffPrev, m)
                            ELSE h3
                      h5 == St(h4, m + OffNext, h4.malloced_items_)
                      h6 == [h5 EXCEPT !.malloced_items_ = m]
                  IN [h |-> h6, m |-> m]

\* yields [h, m]
AllocateChunk(h, size) ==
  LET idx == Log2(size)
  IN IF h.abort # "none" THEN [h |-> h, m |-> NULL]
     ELSE IF ~IsPowerOfTwo(size) \/ idx = CheckFailed
     THEN [h |-> Abort(h, "check"), m |-> NULL]
     ELSE TakeHead(IF h.chunks[idx] = NULL THEN GetNewChunks(h, size) ELSE h, idx)

pop(h) ==
  IF h.abort # "none" THEN h
  ELSE IF h.quarantine_ = NULL \/ ~(h.quarantine_size_ > 0) THEN Abort(h, "check")
  ELSE LET m == Ld(h, h.quarantine_ + OffPrev)
       IN IF m = NULL THEN Abort(h, "check")
          ELSE LET next == Ld(h, m + OffNext)
                   prev == Ld(h, m + OffPrev)
               IN IF next = NULL \/ prev = NULL THEN Abort(h, "check")
                  ELSE LET h1 == IF next = m
                                 THEN [h EXCEPT !.quarantine_ = NULL]
                                 ELSE St(St(h, next + OffPrev, prev), prev + OffNext, next)
                       IN IF ~(h1.quarantine_size_ >= Ld(h1, m + OffAllocated))
                          THEN Abort(h1, "check")
                          ELSE LET h2 == [h1 EXCEPT !.quarantine_size_ =
                                              @ - Ld(h1, m + OffAllocated)]
                               IN IF Ld(h2, m + OffState) # CHUNK_QUARANTINE
                                  THEN Abort(h2, "check")
                                  ELSE LET h3 == SetState(h2, m, CHUNK_AVAILABLE)
                                           idx == Log2(Ld(h3, m + OffAllocated))
                                       IN IF idx = CheckFailed THEN Abort(h3, "check")
                                          ELSE LET h4 == St(h3, m + OffNext, h3.chunks[idx])
                                               IN [h4 EXCEPT !.chunks[idx] = m]

\* the loop evicting as soon as the counter reaches the cap
RECURSIVE EvictLoopAtCap(_)
EvictLoopAtCap(h) ==
  IF h.abort # "none" THEN h
  ELSE IF h.quarantine_size_ # 0 /\ h.quarantine_size_ >= h.cap
       THEN EvictLoopAtCap(pop(h))
  ELSE h

\* the while loop that ends TakeChunkBack
RECURSIVE EvictLoop(_)
EvictLoop(h) ==
  IF h.abort # "none" THEN h
  ELSE IF h.quarantine_size_ # 0 /\ h.quarantine_size_ > h.cap THEN EvictLoop(pop(h))
  ELSE h

\* the unlink that never moves the head of the malloced list
RemoveFromMallocedInner(h, m) ==
  LET prev == Ld(h, m + OffPrev)
      next == Ld(h, m + OffNext)
      h1 == IF prev # NULL THEN St(h, prev + OffNext, next) ELSE h
  IN IF next # NULL THEN St(h1, next + OffPrev, prev) ELSE h1

\* the unlink of m from the malloced list, the first block of TakeChunkBack
RemoveFromMalloced(h, m) ==
  IF m = h.malloced_items_
  THEN LET h1 == [h EXCEPT !.malloced_items_ = Ld(h, m + OffNext)]
       IN IF h1.malloced_items_ # NULL
          THEN St(h1, h1.malloced_items_ + OffPrev, NULL)
          ELSE h1
  ELSE LET prev == Ld(h, m + OffPrev)
           next == Ld(h, m + OffNext)
           h1 == IF prev # NULL THEN St(h, prev + OffNext, next) ELSE h
       IN IF next # NULL THEN St(h1, next + OffPrev, prev) ELSE h1

\* the link of m into the ring with the head left where it was
InsertInQuarantineAtTail(h, m) ==
  IF h.quarantine_ = NULL
  THEN [St(St(h, m + OffNext, m), m + OffPrev, m) EXCEPT !.quarantine_ = m]
  ELSE LET prev == Ld(h, h.quarantine_ + OffPrev)
           a == St(St(h, m + OffNext, h.quarantine_), m + OffPrev, prev)
       IN St(St(a, prev + OffNext, m), h.quarantine_ + OffPrev, m)

\* the link of m at the head of the quarantine ring
InsertInQuarantine(h, m) ==
  LET h1 == IF h.quarantine_ = NULL
            THEN St(St(h, m + OffNext, m), m + OffPrev, m)
            ELSE LET prev == Ld(h, h.quarantine_ + OffPrev)
                     next == h.quarantine_
                     a == St(h, m + OffNext, next)
                     b == St(a, m + OffPrev, prev)
                     c == St(b, prev + OffNext, m)
                 IN St(c, next + OffPrev, m)
  IN [h1 EXCEPT !.quarantine_ = m]

\* TakeChunkBack leaving the chunk's state as it found it
TakeChunkBackKeepsState(h, m) ==
  IF h.abort # "none" THEN h
  ELSE IF m = NULL THEN Abort(h, "check")
  ELSE IF Ld(h, m + OffState) # CHUNK_ALLOCATED THEN Abort(h, "check")
  ELSE LET h1 == RemoveFromMalloced(h, m)
           h2 == InsertInQuarantine(h1, m)
       IN [h2 EXCEPT !.quarantine_size_ = @ + Ld(h2, m + OffAllocated)]

\* TakeChunkBack without its eviction loop
TakeChunkBackNoEvict(h, m) ==
  IF h.abort # "none" THEN h
  ELSE IF m = NULL THEN Abort(h, "check")
  ELSE IF Ld(h, m + OffState) # CHUNK_ALLOCATED THEN Abort(h, "check")
  ELSE LET h1 == RemoveFromMalloced(h, m)
           h2 == InsertInQuarantine(h1, m)
           h3 == [h2 EXCEPT !.quarantine_size_ = @ + Ld(h2, m + OffAllocated)]
       IN SetState(h3, m, CHUNK_QUARANTINE)

\* TakeChunkBack adding the bytes in use to the counter
TakeChunkBackCountsUsed(h, m) ==
  IF h.abort # "none" THEN h
  ELSE IF m = NULL THEN Abort(h, "check")
  ELSE IF Ld(h, m + OffState) # CHUNK_ALLOCATED THEN Abort(h, "check")
  ELSE LET h1 == RemoveFromMalloced(h, m)
           h2 == InsertInQuarantine(h1, m)
           h3 == [h2 EXCEPT !.quarantine_size_ = @ + Ld(h2, m + OffUsed)]
       IN EvictLoop(SetState(h3, m, CHUNK_QUARANTINE))

TakeChunkBack(h, m) ==
  IF h.abort # "none" THEN h
  ELSE IF m = NULL THEN Abort(h, "check")
  ELSE IF Ld(h, m + OffState) # CHUNK_ALLOCATED THEN Abort(h, "check")
  ELSE IF ~IsPowerOfTwo(Ld(h, m + OffAllocated)) THEN Abort(h, "check")
  ELSE IF ~(h.cap > 0) THEN Abort(h, "check")
  ELSE LET h1 == RemoveFromMalloced(h, m)
           h2 == InsertInQuarantine(h1, m)
           h3 == [h2 EXCEPT !.quarantine_size_ = @ + Ld(h2, m + OffAllocated)]
           h4 == SetState(h3, m, CHUNK_QUARANTINE)
       IN EvictLoop(h4)

\* MallocInfo::Deallocate putting the chunk straight back on its freelist
MallocInfoDeallocateRecycles(h, m) ==
  IF h.abort # "none" THEN h
  ELSE IF m = NULL THEN Abort(h, "check")
  ELSE IF Ld(h, m + OffState) # CHUNK_ALLOCATED THEN Abort(h, "check")
  ELSE LET h1 == SetState(RemoveFromMalloced(h, m), m, CHUNK_AVAILABLE)
           idx == Log2(Ld(h1, m + OffAllocated))
       IN [St(h1, m + OffNext, h1.chunks[idx]) EXCEPT !.chunks[idx] = m]

MallocInfoDeallocate(h, m) ==
  IF h.abort # "none" THEN h
  ELSE IF m = NULL THEN Abort(h, "check")
  ELSE IF Ld(h, m + OffState) # CHUNK_ALLOCATED THEN Abort(h, "check")
  ELSE TakeChunkBack(h, m)

(***************************************************************************)
(* The allocation service.                                                 *)
(***************************************************************************)
\* the pointer left at the end of the leading redzone whatever the alignment
PlacePointerNoRound(h, m, alignment) == [h |-> h, addr |-> m + kRedzone]

\* the shim written in the two words that end at the pointer
PlacePointerShimAtPointer(h, m, alignment) ==
  LET addr == m + kRedzone
  IN IF alignment > kRedzone /\ AndDec(addr, alignment) # 0
     THEN LET alignment_log == Log2(alignment)
              addr2 == ((addr + alignment - 1) \div (2^alignment_log)) * (2^alignment_log)
              p == addr2 - 2 * kWordSize
          IN [h |-> St(St(h, p, CHUNK_MEMALIGN), p + kWordSize, m), addr |-> addr2]
     ELSE [h |-> h, addr |-> addr]

\* the pointer Allocate computes for chunk m; yields [h, addr]
PlacePointer(h, m, alignment) ==
  LET addr == m + kRedzone
  IN IF alignment > kRedzone /\ AndDec(addr, alignment) # 0
     THEN LET alignment_log == Log2(alignment)
              addr2 == ((addr + alignment - 1) \div (2^alignment_log)) * (2^alignment_log)
              p == addr2 - kRedzone
          IN IF AndDec(addr2, alignment) # 0
             THEN [h |-> Abort(h, "check"), addr |-> addr2]
             ELSE [h |-> St(St(h, p, CHUNK_MEMALIGN), p + kWordSize, m), addr |-> addr2]
     ELSE [h |-> h, addr |-> addr]

\* the size class computed without the room for the alignment
SizeToAllocateNoAlignment(alignment, size) ==
  LET size_to_allocate == RoundUptoPowerOfTwo(RoundUptoRedzone(size) + kRedzone)
  IN IF size_to_allocate = CheckFailed \/ ~(size_to_allocate >= kMinAllocSize)
     THEN CheckFailed
     ELSE size_to_allocate

\* the size class Allocate draws from, or CheckFailed where one of its CHECKs fails
SizeToAllocate(alignment, size) ==
  LET rounded_size == RoundUptoRedzone(size)
      needed_size == rounded_size + kRedzone
                     + (IF alignment > kRedzone THEN alignment ELSE 0)
      size_to_allocate == RoundUptoPowerOfTwo(needed_size)
  IN IF needed_size % kRedzone # 0 \/ size_to_allocate = CheckFailed
        \/ ~(size_to_allocate >= kMinAllocSize)
        \/ size_to_allocate % kRedzone # 0
     THEN CheckFailed
     ELSE size_to_allocate

\* Allocate from "CHECK(m)" on, r what AllocateChunk yielded; yields [h, ret, m]
HandOut(r, alignment, size, size_to_allocate) ==
  IF r.h.abort # "none" THEN [h |-> r.h, ret |-> NULL, m |-> NULL]
  ELSE IF r.m = NULL \/ Ld(r.h, r.m + OffAllocated) # size_to_allocate
          \/ Ld(r.h, r.m + OffState) # CHUNK_ALLOCATED
  THEN [h |-> Abort(r.h, "check"), ret |-> NULL, m |-> NULL]
  ELSE LET h1 == St(r.h, r.m + OffUsed, size)
           pp == PlacePointer(h1, r.m, alignment)
           h2 == PoisonShadow(pp.h, pp.addr, RoundUptoRedzone(size), 0)
       IN [h |-> h2,
           ret |-> IF h2.abort = "none" THEN pp.addr ELSE NULL,
           m |-> r.m]

\* Allocate drawing a chunk of the smallest class before it looks at size 0
AllocateDrawsForZero(h, alignment, size) ==
  IF h.abort # "none" THEN [h |-> h, ret |-> NULL, m |-> NULL]
  ELSE IF size = 0
  THEN [h |-> AllocateChunk(h, kMinAllocSize).h, ret |-> NULL, m |-> NULL]
  ELSE IF ~IsPowerOfTwo(alignment) \/ SizeToAllocate(alignment, size) = CheckFailed
  THEN [h |-> Abort(h, "check"), ret |-> NULL, m |-> NULL]
  ELSE HandOut(AllocateChunk(h, SizeToAllocate(alignment, size)),
               alignment, size, SizeToAllocate(alignment, size))

\* yields [h, ret, m]: the heap, the pointer returned, the chunk drawn
Allocate(h, alignment, size) ==
  IF h.abort # "none" THEN [h |-> h, ret |-> NULL, m |-> NULL]
  ELSE IF size = 0 THEN [h |-> h, ret |-> NULL, m |-> NULL]
  ELSE IF ~IsPowerOfTwo(alignment) THEN [h |-> Abort(h, "check"), ret |-> NULL, m |-> NULL]
  ELSE IF SizeToAllocate(alignment, size) = CheckFailed
  THEN [h |-> Abort(h, "check"), ret |-> NULL, m |-> NULL]
  ELSE HandOut(AllocateChunk(h, SizeToAllocate(alignment, size)),
               alignment, size, SizeToAllocate(alignment, size))

\* copies n_words words from src to dst, lowest address first
RECURSIVE asan_copy_mem(_, _, _, _)
asan_copy_mem(h, dst, src, n_words) ==
  IF h.abort # "none" THEN h
  ELSE IF ~IsWordAligned(dst) \/ ~IsWordAligned(src) THEN Abort(h, "check")
  ELSE IF n_words = 0 THEN h
  ELSE LET h1 == asan_copy_mem(h, dst, src, n_words - 1)
           i == n_words - 1
       IN St(h1, dst + i * kWordSize, Ld(h1, src + i * kWordSize))

\* the resolution that never looks for the memalign words
PtrToChunkNoShim(h, ptr) == ptr - kRedzone

PtrToChunk(h, ptr) ==
  LET m == ptr - kRedzone
  IN IF Ld(h, m + OffState) = CHUNK_MEMALIGN THEN Ld(h, m + kWordSize) ELSE m

\* Deallocate without the poisoning of the payload
DeallocateNoPoison(h, ptr) ==
  IF h.abort # "none" THEN h
  ELSE IF ptr = NULL THEN h
  ELSE LET m == PtrToChunk(h, ptr)
       IN IF Ld(h, m + OffState) # CHUNK_ALLOCATED THEN Abort(h, "check")
          ELSE MallocInfoDeallocate(h, m)

Deallocate(h, ptr) ==
  IF h.abort # "none" THEN h
  ELSE IF ptr = NULL THEN h
  ELSE LET m == PtrToChunk(h, ptr)
       IN IF Ld(h, m + OffState) # CHUNK_ALLOCATED THEN Abort(h, "check")
          ELSE LET rounded_size == RoundUptoRedzone(Ld(h, m + OffUsed))
                   h1 == PoisonShadow(h, ptr, rounded_size, 255)
               IN MallocInfoDeallocate(h1, m)

\* Reallocate copying whole words only, the count rounded down
ReallocateWholeWords(h, ptr, size) ==
  IF h.abort # "none" THEN [h |-> h, ret |-> NULL, m |-> NULL]
  ELSE IF ptr = NULL THEN Allocate(h, 0, size)
  ELSE IF size = 0 THEN [h |-> h, ret |-> NULL, m |-> NULL]
  ELSE LET m == PtrToChunk(h, ptr)
           memcpy_size == Min(size, Ld(h, m + OffUsed))
           r == Allocate(h, 0, size)
           h1 == asan_copy_mem(r.h, r.ret, ptr, memcpy_size \div kWordSize)
           h2 == Deallocate(h1, ptr)
       IN [h |-> h2, ret |-> IF h2.abort = "none" THEN r.ret ELSE NULL, m |-> r.m]

\* yields [h, ret, m]
Reallocate(h, ptr, size) ==
  IF h.abort # "none" THEN [h |-> h, ret |-> NULL, m |-> NULL]
  ELSE IF ptr = NULL THEN Allocate(h, 0, size)
  ELSE IF size = 0 THEN [h |-> h, ret |-> NULL, m |-> NULL]
  ELSE LET m == PtrToChunk(h, ptr)
       IN IF Ld(h, m + OffState) # CHUNK_ALLOCATED
          THEN [h |-> Abort(h, "check"), ret |-> NULL, m |-> NULL]
          ELSE LET old_size == Ld(h, m + OffUsed)
                   memcpy_size == Min(size, old_size)
                   r == Allocate(h, 0, size)
                   h1 == asan_copy_mem(r.h, r.ret, ptr,
                                       (memcpy_size + kWordSize - 1) \div kWordSize)
                   h2 == Deallocate(h1, ptr)
               IN [h |-> h2,
                   ret |-> IF h2.abort = "none" THEN r.ret ELSE NULL,
                   m |-> r.m]

(***************************************************************************)
(* The state machine.                                                      *)
(*   live      the pointers handed out and not yet freed, each with the    *)
(*             chunk drawn for it, the request that produced it, and what  *)
(*             the chunk waited if it had been freed before                *)
(*   dangling  the pointers freed whose chunk has not been handed out      *)
(*             again, each with its chunk, its rounded payload size, the   *)
(*             bytes freed since and the operation that freed it           *)
(*   lastOp    the public operation that ran last, its inputs and result   *)
(*   nops      the number of public operations run                         *)
(*   pc, tsize, tm, tret, tops   the threads of the concurrent             *)
(*             specification: position, class requested, chunk read from   *)
(*             the freelist, pointer held, operations started              *)
(***************************************************************************)
VARIABLES mem, shadow, maps, chunks, quarantine_, quarantine_size_,
          malloced_items_, cap, place, abort, carved, log,
          live, dangling, lastOp, nops,
          pc, tsize, tm, tret, tops

heapvars == <<mem, shadow, maps, chunks, quarantine_, quarantine_size_,
              malloced_items_, cap, place, abort, carved, log>>
histvars == <<live, dangling, lastOp, nops>>
thrvars == <<pc, tsize, tm, tret, tops>>
vars == <<heapvars, histvars, thrvars>>

Threads == {1, 2}

Heap ==
  [mem |-> mem, shadow |-> shadow, maps |-> maps, chunks |-> chunks,
   quarantine_ |-> quarantine_, quarantine_size_ |-> quarantine_size_,
   malloced_items_ |-> malloced_items_, cap |-> cap, place |-> place,
   abort |-> abort,
   carved |-> carved, log |-> <<>>]

SetHeap(h) ==
  /\ mem' = h.mem
  /\ shadow' = h.shadow
  /\ maps' = h.maps
  /\ chunks' = h.chunks
  /\ quarantine_' = h.quarantine_
  /\ quarantine_size_' = h.quarantine_size_
  /\ malloced_items_' = h.malloced_items_
  /\ cap' = h.cap
  /\ place' = h.place
  /\ abort' = h.abort
  /\ carved' = h.carved
  /\ log' = h.log

NoOp == [op |-> "none", a |-> 0, n |-> 0, ptr |-> NULL, ret |-> NULL,
         chunk |-> NULL, rc |-> 0, old |-> <<>>]

InitHeapWith(caps) ==
  /\ mem = [a \in WordAddrs |-> 0]
  /\ shadow = [g \in ShadowIdx |-> 0]
  /\ maps = {}
  /\ chunks = [i \in 0 .. (WORDSIZE - 1) |-> NULL]
  /\ quarantine_ = NULL
  /\ quarantine_size_ = 0
  /\ malloced_items_ = NULL
  /\ cap \in caps
  /\ place \in Placements
  /\ abort = "none"
  /\ carved = {}
  /\ log = <<>>

InitHeap == InitHeapWith(QuarantineCaps)

InitThreads ==
  /\ pc = [t \in Threads |-> "idle"]
  /\ tsize = [t \in Threads |-> 0]
  /\ tm = [t \in Threads |-> NULL]
  /\ tret = [t \in Threads |-> NULL]
  /\ tops = [t \in Threads |-> 0]

InitWith(caps) ==
  /\ InitHeapWith(caps)
  /\ InitThreads
  /\ live = {}
  /\ dangling = {}
  /\ lastOp = NoOp
  /\ nops = 0

Init == InitWith(QuarantineCaps)

LivePtrs == {l.ptr : l \in live}
DanglingPtrs == {d.ptr : d \in dangling}

\* the bookkeeping of a pointer handed out: r is what Allocate yielded; again
\* says that the chunk had been freed before, waited the bytes freed from
\* that free on
Handed(lv, r, a, n) ==
  IF r.ret = NULL THEN lv
  ELSE lv \cup {[ptr |-> r.ret, chunk |-> r.m, n |-> n, a |-> a,
                 again |-> \E d \in dangling : d.chunk = r.m,
                 waited |-> IF \E d \in dangling : d.chunk = r.m
                            THEN (CHOOSE d \in dangling : d.chunk = r.m).since
                            ELSE 0]}

Redrawn(dg, r) == {d \in dg : d.chunk # r.m}

\* the size chunk m was constructed with
ChunkSize(m) == (CHOOSE c \in carved : c.base = m).size

\* the bookkeeping of a pointer freed: since counts the bytes of the chunks
\* freed from this one on, at is the number of the operation that freed it
Freed(dg, lv, p) ==
  IF p \notin {l.ptr : l \in lv} THEN dg
  ELSE LET l == CHOOSE x \in lv : x.ptr = p
       IN {[d EXCEPT !.since = @ + ChunkSize(l.chunk)] : d \in dg}
          \cup {[ptr |-> l.ptr, chunk |-> l.chunk, r |-> RoundUptoRedzone(l.n),
                  since |-> ChunkSize(l.chunk), at |-> nops]}

CanRun == abort = "none" /\ nops < MaxOps

\* __asan_malloc
MallocCall(n) ==
  /\ \E r \in {Allocate(Heap, 0, n)} :
        /\ SetHeap(r.h)
        /\ live' = Handed(live, r, 0, n)
        /\ dangling' = Redrawn(dangling, r)
        /\ lastOp' = [NoOp EXCEPT !.op = "malloc", !.n = n, !.ret = r.ret,
                                  !.chunk = r.m]
  /\ nops' = nops + 1
  /\ UNCHANGED thrvars

Malloc(n) == CanRun /\ MallocCall(n)

\* __asan_memalign
Memalign(a, n) ==
  /\ CanRun
  /\ \E r \in {Allocate(Heap, a, n)} :
        /\ SetHeap(r.h)
        /\ live' = Handed(live, r, a, n)
        /\ dangling' = Redrawn(dangling, r)
        /\ lastOp' = [NoOp EXCEPT !.op = "memalign", !.a = a, !.n = n,
                                  !.ret = r.ret, !.chunk = r.m]
  /\ nops' = nops + 1
  /\ UNCHANGED thrvars

\* __asan_posix_memalign: its CHECK computes *memptr % alignment, so for
\* alignment 0 the behaviour is undefined: the division traps (ub = "trap")
\* or the CHECK is taken to pass (ub = "pass")
PosixMemalign(a, n, ub) ==
  /\ CanRun
  /\ \E r \in {Allocate(Heap, a, n)} :
     \E h \in {IF r.h.abort # "none" THEN r.h
               ELSE IF a = 0 THEN (IF ub = "trap" THEN Abort(r.h, "fpe") ELSE r.h)
               ELSE IF r.ret % a # 0 THEN Abort(r.h, "check")
               ELSE r.h} :
        /\ SetHeap(h)
        /\ live' = Handed(live, r, a, n)
        /\ dangling' = Redrawn(dangling, r)
        /\ lastOp' = [NoOp EXCEPT !.op = "posix_memalign", !.a = a, !.n = n,
                                  !.ret = r.ret, !.chunk = r.m,
                                  !.rc = IF h.abort = "none" THEN 0 ELSE CheckFailed]
  /\ nops' = nops + 1
  /\ UNCHANGED thrvars

\* __asan_free, of a live pointer, of a pointer already freed, or of null
FreeCall(p) ==
  /\ \E h \in {Deallocate(Heap, p)} :
        /\ SetHeap(h)
        /\ live' = IF h.abort = "none" THEN {l \in live : l.ptr # p} ELSE live
        /\ dangling' = IF h.abort = "none" THEN Freed(dangling, live, p) ELSE dangling
        /\ lastOp' = [NoOp EXCEPT !.op = "free", !.ptr = p,
                                  !.chunk = IF p = NULL THEN NULL ELSE PtrToChunk(Heap, p)]
  /\ nops' = nops + 1
  /\ UNCHANGED thrvars

Free(p) == CanRun /\ FreeCall(p)

\* the bytes [p, p + k) as a sequence
Bytes(h, p, k) == [i \in 1 .. k |-> LdByte(h, p + i - 1)]

UsedSize(p) == (CHOOSE l \in live : l.ptr = p).n

\* __asan_realloc, of a live pointer or of null
Realloc(p, n) ==
  /\ CanRun
  /\ \E r \in {Reallocate(Heap, p, n)} :
     \E freed \in {p # NULL /\ n # 0 /\ r.h.abort = "none"} :
        /\ SetHeap(r.h)
        /\ live' = Handed(IF freed THEN {l \in live : l.ptr # p} ELSE live, r, 0, n)
        /\ dangling' = IF freed THEN Freed(Redrawn(dangling, r), live, p)
                       ELSE Redrawn(dangling, r)
        /\ lastOp' = [NoOp EXCEPT !.op = "realloc", !.ptr = p, !.n = n,
                                  !.ret = r.ret,
                                  !.chunk = IF p = NULL THEN r.m ELSE PtrToChunk(Heap, p),
                                  !.old = IF p = NULL THEN <<>>
                                          ELSE Bytes(Heap, p, Min(n, UsedSize(p)))]
  /\ nops' = nops + 1
  /\ UNCHANGED thrvars

\* the program stores byte b at offset i of a live object
Write(p, i, b) ==
  /\ CanRun
  /\ \E h \in {StByte(Heap, p + i, b)} : SetHeap(h)
  /\ lastOp' = [NoOp EXCEPT !.op = "write", !.ptr = p, !.n = i]
  /\ nops' = nops + 1
  /\ UNCHANGED <<live, dangling, thrvars>>

\* what the division by alignment in the CHECK of __asan_posix_memalign can do
UbOutcomes(a) == IF a = 0 THEN {"trap", "pass"} ELSE {"pass"}

DoMalloc == \E n \in Sizes \cup {0} : Malloc(n)

DoMemalign ==
  \E a \in Aligns \ {0}, n \in Sizes : Memalign(a, n)

DoPosixMemalign ==
  \E a \in PosixAligns, n \in PosixSizes :
     \E ub \in UbOutcomes(a) : PosixMemalign(a, n, ub)

DoFree == \E p \in LivePtrs \cup DanglingPtrs \cup {NULL} : Free(p)

DoRealloc ==
  \E p \in LivePtrs \cup {NULL}, n \in Sizes \cup {0} : Realloc(p, n)

DoWrite ==
  \E l \in live, b \in DataBytes : \E i \in {0, l.n - 1} : Write(l.ptr, i, b)

Next ==
  \/ DoMalloc
  \/ DoMemalign
  \/ DoPosixMemalign
  \/ DoFree
  \/ DoRealloc
  \/ DoWrite

Spec == Init /\ [][Next]_vars

(***************************************************************************)
(* Two threads calling malloc and free with no lock around MallocInfo:     *)
(* the file takes none.  AllocateChunk is split at its accesses to the     *)
(* freelist head and to the chunk's state; the refill, the rest of         *)
(* Allocate and the whole of Deallocate each run as one step.              *)
(***************************************************************************)
ThreadCanRun(t, at) == abort = "none" /\ pc[t] = at

ClassIdx(t) == Log2(SizeToAllocate(0, tsize[t]))

\* a thread enters Allocate(0, n)
TBegin(t, n) ==
  /\ ThreadCanRun(t, "idle")
  /\ tops[t] < MaxThreadOps
  /\ pc' = [pc EXCEPT ![t] = "refill"]
  /\ tsize' = [tsize EXCEPT ![t] = n]
  /\ tops' = [tops EXCEPT ![t] = @ + 1]
  /\ UNCHANGED <<heapvars, histvars, tm, tret>>

\* AllocateChunk: if (!chunks[idx]) GetNewChunks(size)
TRefill(t) ==
  /\ ThreadCanRun(t, "refill")
  /\ \E h \in {IF chunks[ClassIdx(t)] = NULL
               THEN GetNewChunks(Heap, SizeToAllocate(0, tsize[t]))
               ELSE Heap} : SetHeap(h)
  /\ pc' = [pc EXCEPT ![t] = "read"]
  /\ UNCHANGED <<histvars, tsize, tm, tret, tops>>

\* AllocateChunk: Chunk *m = chunks[idx]; CHECK(m)
TRead(t) ==
  /\ ThreadCanRun(t, "read")
  /\ tm' = [tm EXCEPT ![t] = chunks[ClassIdx(t)]]
  /\ \E h \in {IF chunks[ClassIdx(t)] = NULL THEN Abort(Heap, "check") ELSE Heap} :
        SetHeap(h)
  /\ pc' = [pc EXCEPT ![t] = "unlink"]
  /\ UNCHANGED <<histvars, tsize, tret, tops>>

\* AllocateChunk: chunks[idx] = m->next; m->next = m->prev = 0
TUnlink(t) ==
  /\ ThreadCanRun(t, "unlink")
  /\ \E h \in {[St(St(Heap, tm[t] + OffNext, NULL), tm[t] + OffPrev, NULL)
                  EXCEPT !.chunks[ClassIdx(t)] = Ld(Heap, tm[t] + OffNext)]} :
        SetHeap(h)
  /\ pc' = [pc EXCEPT ![t] = "check"]
  /\ UNCHANGED <<histvars, tsize, tm, tret, tops>>

\* AllocateChunk: CHECK(m->chunk_state == CHUNK_AVAILABLE)
TCheck(t) ==
  /\ ThreadCanRun(t, "check")
  /\ \E h \in {IF Ld(Heap, tm[t] + OffState) # CHUNK_AVAILABLE
               THEN Abort(Heap, "check") ELSE Heap} : SetHeap(h)
  /\ pc' = [pc EXCEPT ![t] = "set"]
  /\ UNCHANGED <<histvars, tsize, tm, tret, tops>>

\* AllocateChunk: m->chunk_state = CHUNK_ALLOCATED
TSet(t) ==
  /\ ThreadCanRun(t, "set")
  /\ \E h \in {SetState(Heap, tm[t], CHUNK_ALLOCATED)} : SetHeap(h)
  /\ pc' = [pc EXCEPT ![t] = "link"]
  /\ UNCHANGED <<histvars, tsize, tm, tret, tops>>

\* the link into the malloced list, then the rest of Allocate
LinkAndReturn(h, m, size) ==
  LET h4 == IF h.malloced_items_ # NULL
            THEN St(h, h.malloced_items_ + OffPrev, m)
            ELSE h
      h5 == St(h4, m + OffNext, h4.malloced_items_)
      h6 == [h5 EXCEPT !.malloced_items_ = m]
  IN HandOut([h |-> h6, m |-> m], 0, size, SizeToAllocate(0, size))

TLink(t) ==
  /\ ThreadCanRun(t, "link")
  /\ \E r \in {LinkAndReturn(Heap, tm[t], tsize[t])} :
        /\ SetHeap(r.h)
        /\ tret' = [tret EXCEPT ![t] = r.ret]
  /\ pc' = [pc EXCEPT ![t] = "held"]
  /\ UNCHANGED <<histvars, tsize, tm, tops>>

\* a thread frees the pointer it holds
TFree(t) ==
  /\ ThreadCanRun(t, "held")
  /\ \E h \in {Deallocate(Heap, tret[t])} : SetHeap(h)
  /\ tret' = [tret EXCEPT ![t] = NULL]
  /\ pc' = [pc EXCEPT ![t] = "idle"]
  /\ UNCHANGED <<histvars, tsize, tm, tops>>

DoTBegin == \E t \in Threads, n \in Sizes : TBegin(t, n)
DoTRefill == \E t \in Threads : TRefill(t)
DoTRead == \E t \in Threads : TRead(t)
DoTUnlink == \E t \in Threads : TUnlink(t)
DoTCheck == \E t \in Threads : TCheck(t)
DoTSet == \E t \in Threads : TSet(t)
DoTLink == \E t \in Threads : TLink(t)
DoTFree == \E t \in Threads : TFree(t)

NextConc ==
  \/ DoTBegin
  \/ DoTRefill
  \/ DoTRead
  \/ DoTUnlink
  \/ DoTCheck
  \/ DoTSet
  \/ DoTLink
  \/ DoTFree

SpecConc == Init /\ [][NextConc]_vars

(***************************************************************************)
(* One thread calling malloc and free only, for more operations: enough    *)
(* to fill the quarantine with chunks of two size classes.                 *)
(***************************************************************************)
CanRunDeep == abort = "none" /\ nops < MaxDeepOps

DoDeepMalloc == CanRunDeep /\ \E n \in Sizes : MallocCall(n)

DoDeepFree == CanRunDeep /\ \E p \in LivePtrs : FreeCall(p)

NextDeep ==
  \/ DoDeepMalloc
  \/ DoDeepFree

InitDeep == InitWith(DeepCaps)

SpecDeep == InitDeep /\ [][NextDeep]_vars

(***************************************************************************)
(* One thread repeating p = malloc(n); free(p) with requests of one size   *)
(* class, under a quarantine smaller or larger than a whole mapping.       *)
(***************************************************************************)
InitPairs == InitWith(PairCaps)

CanRunPairs == abort = "none" /\ nops < MaxPairOps

DoPairMalloc ==
  /\ CanRunPairs
  /\ live = {}
  /\ \E n \in PairSizes :
        /\ \A c \in carved : c.size = SizeToAllocate(0, n)
        /\ MallocCall(n)

DoPairFree == CanRunPairs /\ \E p \in LivePtrs : FreeCall(p)

NextPairs ==
  \/ DoPairMalloc
  \/ DoPairFree

SpecPairs == InitPairs /\ [][NextPairs]_vars

(***************************************************************************)
(* The properties checked.                                                 *)
(***************************************************************************)
StateOf(m) == mem[m + OffState]

\* every shadow byte of [lo, lo + n) holds v
ShadowIs(lo, n, v) ==
  \A g \in MemToShadow(lo) .. MemToShadow(lo + n - 1) : shadow[g] = v

Mapped(a) == \E mp \in maps : mp.base <= a /\ a < mp.base + mp.size

\* the last operation was a call of Allocate through a public entry point
IsAllocCall ==
  \/ lastOp.op \in {"malloc", "memalign", "posix_memalign"}
  \/ lastOp.op = "realloc" /\ lastOp.ptr = NULL

\* C1: an allocate(a, n) with n > 0 that returns yields a non-null pointer
\* aligned to max(a, REDZONE) whose n bytes are all unpoisoned in the shadow.
C1_AllocateResult ==
  (IsAllocCall /\ lastOp.n > 0 /\ abort = "none") =>
     /\ lastOp.ret # NULL
     /\ lastOp.ret % Max(lastOp.a, kRedzone) = 0
     /\ ShadowIs(lastOp.ret, lastOp.n, 0)

C1_Witness ==
  /\ lastOp.op = "memalign"
  /\ lastOp.a = 128
  /\ lastOp.n = 33
  /\ abort = "none"
  /\ lastOp.ret # NULL
  /\ dangling # {}

\* C2: from the return of the free of a pointer until its chunk is handed out
\* again, while the chunk is QUARANTINED or AVAILABLE, every shadow byte of
\* the rounded payload holds 0xFF.
C2_FreedPayloadPoisoned ==
  \A d \in dangling :
     StateOf(d.chunk) \in {CHUNK_QUARANTINE, CHUNK_AVAILABLE} =>
        ShadowIs(d.ptr, d.r, 255)

C2_Witness ==
  /\ IsAllocCall
  /\ lastOp.ret # NULL
  /\ \E d \in dangling : StateOf(d.chunk) = CHUNK_AVAILABLE

\* C3: the leading redzone of every chunk constructed and the REDZONE bytes
\* after the rounded payload of every live object are mapped and poisoned,
\* the last chunk of a mapping and a padded size that is exactly a power of
\* two included.
C3_RedzonesPoisoned ==
  /\ \A c \in carved : ShadowIs(c.base, kRedzone, 255)
  /\ \A l \in live :
        LET e == l.ptr + RoundUptoRedzone(l.n)
        IN /\ \A i \in 0 .. (kRedzone - 1) : Mapped(e + i)
           /\ ShadowIs(e, kRedzone, 255)

\* C4: the free of a pointer already freed, its chunk not handed out again,
\* aborts and leaves the allocator's memory, shadow and lists as they were.
C4_DoubleFreeAborts ==
  [][(lastOp'.op = "free" /\ nops' = nops + 1 /\ lastOp'.ptr \in DanglingPtrs) =>
        /\ abort' = "check"
        /\ UNCHANGED <<mem, shadow, maps, chunks, quarantine_, quarantine_size_,
                       malloced_items_, carved>>]_vars

C4_Witness ==
  /\ lastOp.op = "free"
  /\ lastOp.ptr \in DanglingPtrs
  /\ abort = "check"
  /\ StateOf(lastOp.chunk) = CHUNK_QUARANTINE

\* C5: reallocate(p, 0) with p non-null does what deallocate(p) does and
\* returns null: afterwards the chunk of p is no longer ALLOCATED and its
\* payload is poisoned.
C5_ReallocZeroFrees ==
  (lastOp.op = "realloc" /\ lastOp.ptr # NULL /\ lastOp.n = 0 /\ abort = "none") =>
     /\ lastOp.ret = NULL
     /\ StateOf(lastOp.chunk) # CHUNK_ALLOCATED
     /\ shadow[MemToShadow(lastOp.ptr)] = 255

\* C6: reallocate(p, n) with p live and n > 0 returns a live pointer other
\* than p whose first min(n, s) bytes are the bytes p held, and the chunk of
\* p is no longer ALLOCATED.
C6_ReallocCopies ==
  (lastOp.op = "realloc" /\ lastOp.ptr # NULL /\ lastOp.n > 0 /\ abort = "none") =>
     /\ lastOp.ret # NULL
     /\ lastOp.ret # lastOp.ptr
     /\ lastOp.ret \in LivePtrs
     /\ StateOf(PtrToChunk(Heap, lastOp.ret)) = CHUNK_ALLOCATED
     /\ Bytes(Heap, lastOp.ret, Len(lastOp.old)) = lastOp.old
     /\ StateOf(lastOp.chunk) # CHUNK_ALLOCATED
     /\ lastOp.ptr \notin LivePtrs

C6_Witness ==
  /\ lastOp.op = "realloc"
  /\ lastOp.ptr # NULL
  /\ lastOp.n = 33
  /\ abort = "none"
  /\ Len(lastOp.old) = 5
  /\ lastOp.old[5] = 7
  /\ LdByte(Heap, lastOp.ret + 4) = 7

\* C7: with several threads in the allocator no chunk is returned to two
\* callers: two threads never hold the same pointer.
C7_NoChunkReturnedTwice ==
  \A t1 \in Threads, t2 \in Threads :
     (t1 # t2 /\ pc[t1] = "held" /\ pc[t2] = "held") => tret[t1] # tret[t2]

\* C8: whenever a public operation has returned, the quarantine byte counter
\* is at most the configured maximum.
C8_QuarantineWithinCap == abort = "none" => quarantine_size_ <= cap

C8_Witness ==
  /\ lastOp.op = "free"
  /\ abort = "none"
  /\ lastOp.chunk # NULL
  /\ StateOf(lastOp.chunk) = CHUNK_AVAILABLE
  /\ quarantine_size_ <= cap

C10_PosixMemalignReturnsZero ==
  (lastOp.op = "posix_memalign" /\ abort # "oom") =>
     /\ abort = "none"
     /\ lastOp.rc = 0

\* C11: allocate(a, 0) returns null and deallocate(null) returns, and each
\* leaves memory (chunk headers included), shadow, mappings, freelists, live
\* list, quarantine ring and counter as they were.
C11_NullCallsChangeNothing ==
  [][(/\ nops' = nops + 1
      /\ \/ IsAllocCall' /\ lastOp'.n = 0
         \/ lastOp'.op = "free" /\ lastOp'.ptr = NULL) =>
        /\ lastOp'.ret = NULL
        /\ lastOp'.op # "posix_memalign" => abort' = "none"
        /\ UNCHANGED <<mem, shadow, maps, chunks, quarantine_, quarantine_size_,
                       malloced_items_, carved>>]_vars

C11_Witness ==
  /\ lastOp.op = "malloc"
  /\ lastOp.n = 0
  /\ lastOp.ret = NULL
  /\ abort = "none"
  /\ quarantine_ # NULL

\* the chunks linked from m by next, up to null or to stop
RECURSIVE Walk(_, _, _)
Walk(m, stop, fuel) ==
  IF m = NULL \/ m = stop \/ fuel = 0 THEN <<>>
  ELSE <<m>> \o Walk(mem[m + OffNext], stop, fuel - 1)

MaxChain == Cardinality(carved) + 1

FreeList(idx) == Walk(chunks[idx], NULL, MaxChain)

LiveList == Walk(malloced_items_, NULL, MaxChain)

\* the quarantine ring from its head, newest first
Ring ==
  IF quarantine_ = NULL THEN <<>>
  ELSE <<quarantine_>> \o Walk(mem[quarantine_ + OffNext], quarantine_, MaxChain)

Count(seq, x) == Cardinality({i \in 1 .. Len(seq) : seq[i] = x})

\* how often x is on some freelist other than freelist idx
CountElsewhere(idx, x) ==
  Cardinality({i \in 0 .. (WORDSIZE - 1) : i # idx /\ Count(FreeList(i), x) > 0})

\* C12: after every sequence of public operations run one at a time, every
\* chunk constructed is in exactly one collection, the one of its state:
\* AVAILABLE on freelist[log2(allocated_size)] once, ALLOCATED in the live
\* list once, QUARANTINE in the ring once, and nowhere else.
C12_ExactlyOneCollection ==
  abort = "none" =>
    \A c \in carved :
      \E idx \in {Log2(mem[c.base + OffAllocated])} :
      \E own \in {Count(FreeList(idx), c.base)} :
      \E lv \in {Count(LiveList, c.base)} :
      \E qr \in {Count(Ring, c.base)} :
        /\ CountElsewhere(idx, c.base) = 0
        /\ \/ StateOf(c.base) = CHUNK_AVAILABLE /\ own = 1 /\ lv = 0 /\ qr = 0
           \/ StateOf(c.base) = CHUNK_ALLOCATED /\ own = 0 /\ lv = 1 /\ qr = 0
           \/ StateOf(c.base) = CHUNK_QUARANTINE /\ own = 0 /\ lv = 0 /\ qr = 1

C12_Witness ==
  /\ abort = "none"
  /\ Len(LiveList) >= 2
  /\ Len(Ring) >= 1
  /\ \E d \in dangling : StateOf(d.chunk) = CHUNK_AVAILABLE
  /\ lastOp.op = "free"

RECURSIVE SumSizes(_)
SumSizes(seq) ==
  IF seq = <<>> THEN 0 ELSE mem[Head(seq) + OffAllocated] + SumSizes(Tail(seq))

\* C13: after every public operation returns, the quarantine byte counter
\* equals the sum of allocated_size over the chunks linked in the ring.
C13_CounterIsSum == abort = "none" => quarantine_size_ = SumSizes(Ring)

C13_Witness ==
  /\ abort = "none"
  /\ Len(Ring) = 2
  /\ mem[Ring[1] + OffAllocated] # mem[Ring[2] + OffAllocated]
  /\ \E d \in dangling : StateOf(d.chunk) = CHUNK_AVAILABLE

Transitions ==
  {<<CHUNK_AVAILABLE, CHUNK_ALLOCATED>>,
   <<CHUNK_ALLOCATED, CHUNK_QUARANTINE>>,
   <<CHUNK_QUARANTINE, CHUNK_AVAILABLE>>}

CarvedBases == {c.base : c \in carved}

\* the state the writes logged in lg leave in chunk m, dflt if there is none
LastLogged(lg, m, dflt) ==
  IF \A i \in 1 .. Len(lg) : lg[i].chunk # m THEN dflt
  ELSE lg[SetMax({i \in 1 .. Len(lg) : lg[i].chunk = m})].to

\* C14: every chunk is constructed AVAILABLE; every write of a chunk's state
\* is AVAILABLE -> ALLOCATED, ALLOCATED -> QUARANTINE or QUARANTINE ->
\* AVAILABLE; nothing else changes a state; allocated_size never changes
\* after construction.
C14_OnlyThreeTransitions ==
  [][/\ \A i \in 1 .. Len(log') :
           \/ <<log'[i].from, log'[i].to>> \in Transitions
           \/ /\ log'[i].to = CHUNK_AVAILABLE
              /\ log'[i].chunk \in CarvedBases' \ CarvedBases
              /\ \A j \in 1 .. (i - 1) : log'[j].chunk # log'[i].chunk
     /\ \A c \in carved' :
           StateOf(c.base)' =
              LastLogged(log', c.base, IF c \in carved THEN StateOf(c.base) ELSE 0)
     /\ \A c \in carved' \ carved :
           \E i \in 1 .. Len(log') : log'[i].chunk = c.base
     /\ carved \subseteq carved'
     /\ \A c \in carved' : mem'[c.base + OffAllocated] = c.size]_vars

C14_Witness ==
  /\ abort = "none"
  /\ \E i \in 1 .. Len(log) : <<log[i].from, log[i].to>> = <<CHUNK_AVAILABLE, CHUNK_ALLOCATED>>
  /\ \E i \in 1 .. Len(log) : <<log[i].from, log[i].to>> = <<CHUNK_ALLOCATED, CHUNK_QUARANTINE>>
  /\ \E i \in 1 .. Len(log) : <<log[i].from, log[i].to>> = <<CHUNK_QUARANTINE, CHUNK_AVAILABLE>>

\* the operation that freed chunk m, by the bookkeeping dg
FreedAt(dg, m) == (CHOOSE d \in dg : d.chunk = m).at

IsEviction(e) == e.from = CHUNK_QUARANTINE /\ e.to = CHUNK_AVAILABLE

\* C15: the quarantine is a FIFO: a chunk evicted was freed before every
\* chunk that stays in the quarantine and before every chunk evicted after
\* it, and the ring lists the chunks newest first.
C15_QuarantineIsFifo ==
  [][/\ \A i \in 1 .. Len(log') :
           IsEviction(log'[i]) =>
              /\ \A d \in dangling' :
                    StateOf(d.chunk)' = CHUNK_QUARANTINE =>
                       FreedAt(dangling', log'[i].chunk) < d.at
              /\ \A j \in (i + 1) .. Len(log') :
                    IsEviction(log'[j]) =>
                       FreedAt(dangling', log'[i].chunk)
                          < FreedAt(dangling', log'[j].chunk)
     /\ \A i \in 1 .. Len(Ring') : \A j \in (i + 1) .. Len(Ring') :
           FreedAt(dangling', Ring'[i]) > FreedAt(dangling', Ring'[j])]_vars

C15_Witness ==
  /\ abort = "none"
  /\ \E i \in 1 .. Len(log) : IsEviction(log[i])
  /\ Len(Ring) = 2
  /\ mem[Ring[1] + OffAllocated] # mem[Ring[2] + OffAllocated]

\* C19: a chunk handed out again had waited until the bytes freed from its
\* own free on exceeded the cap, and a chunk for which they have not is
\* still held in the quarantine, so no allocation returns a pointer into it.
C19_ReuseDelayed ==
  /\ \A l \in live : l.again => l.waited > cap
  /\ \A d \in dangling :
        d.since <= cap =>
           /\ StateOf(d.chunk) = CHUNK_QUARANTINE
           /\ \A l \in live : l.chunk # d.chunk

C19_Witness ==
  /\ abort = "none"
  /\ \E l \in live : l.again
  /\ \E d \in dangling : d.since = cap /\ StateOf(d.chunk) = CHUNK_QUARANTINE

\* C16: every chunk that is ALLOCATED or in QUARANTINE has an allocated_size
\* that is a power of two of at least kMinAllocSize, and a used_size that
\* leaves room for two redzones.
C16_SizeBounds ==
  \A c \in carved :
     StateOf(c.base) \in {CHUNK_ALLOCATED, CHUNK_QUARANTINE} =>
        /\ IsPowerOfTwo(mem[c.base + OffAllocated])
        /\ mem[c.base + OffAllocated] >= kMinAllocSize
        /\ mem[c.base + OffUsed] <= mem[c.base + OffAllocated] - 2 * kRedzone

\* C17: PtrToChunk is the inverse of allocation: every pointer handed out and
\* not yet freed resolves to the chunk drawn for it, and that chunk is
\* ALLOCATED, whatever the chunk was used for before.
C17_PtrToChunkInverse ==
  \A l \in live :
     /\ PtrToChunk(Heap, l.ptr) = l.chunk
     /\ StateOf(l.chunk) = CHUNK_ALLOCATED

\* a chunk once handed out with the memalign words is handed out again at
\* its redzone, the old words now lying in its payload
C17_Witness ==
  /\ abort = "none"
  /\ \E l \in live :
        /\ l.again
        /\ l.ptr = l.chunk + kRedzone
        /\ mem[l.ptr] = CHUNK_MEMALIGN
        /\ mem[l.ptr + kWordSize] = l.chunk

\* the bytes [lo, hi) and [lo2, hi2) have none in common
Disjoint(lo, hi, lo2, hi2) == hi <= lo2 \/ hi2 <= lo

\* the end of the payload of a live pointer, padded to the redzone
PayloadEnd(l) == l.ptr + RoundUptoRedzone(l.n)

ChunkEnd(m) == m + ChunkSize(m)

\* C20: live allocations never overlap: two distinct live pointers have
\* distinct and disjoint chunks and disjoint padded payloads, each payload
\* lies inside [chunk + kRedzone, chunk + allocated_size], and no call hands
\* out a chunk that a live pointer already holds.
C20_LiveNeverOverlap ==
  [][/\ \A l \in live' :
           /\ l.chunk + kRedzone <= l.ptr
           /\ PayloadEnd(l) <= ChunkEnd(l.chunk)'
           /\ ChunkSize(l.chunk)' = mem'[l.chunk + OffAllocated]
     /\ \A l1 \in live' : \A l2 \in live' :
           l1 # l2 =>
              /\ l1.ptr # l2.ptr
              /\ l1.chunk # l2.chunk
              /\ Disjoint(l1.chunk, ChunkEnd(l1.chunk)', l2.chunk, ChunkEnd(l2.chunk)')
              /\ Disjoint(l1.ptr, PayloadEnd(l1), l2.ptr, PayloadEnd(l2))
     /\ (/\ lastOp'.op \in {"malloc", "memalign", "posix_memalign", "realloc"}
         /\ lastOp'.ret # NULL
         /\ nops' # nops) =>
           \A l \in live : \A x \in live' :
              x.ptr = lastOp'.ret => l.chunk # x.chunk /\ l.ptr # x.ptr]_vars

\* two live pointers in adjacent chunks, the lower payload ending where its
\* chunk ends, the upper pointer moved up to its alignment
C20_Witness ==
  /\ abort = "none"
  /\ \E l1 \in live : \E l2 \in live :
        /\ PayloadEnd(l1) = ChunkEnd(l1.chunk)
        /\ l2.chunk = ChunkEnd(l1.chunk)
        /\ l2.ptr # l2.chunk + kRedzone

\* the chunks one mapping of a size class is cut into
ClassCapacity(size) == Max(size, kMinMmapSize) \div size

\* the allocations made so far when mallocs and frees alternate
PairsBegun == (nops + 1) \div 2

\* C18: a size class is refilled only by a draw that finds its freelist
\* empty, the refill is one mapping cut into ClassCapacity chunks, all
\* AVAILABLE but the one drawn, and N allocate/deallocate pairs of one class
\* with N at most ClassCapacity leave exactly one mapping, whatever the cap.
C18_RefillOnlyWhenEmpty ==
  [][/\ maps' = maps => carved' = carved
     /\ maps' # maps =>
           /\ lastOp'.op = "malloc"
           /\ chunks[Log2(SizeToAllocate(0, lastOp'.n))] = NULL
           /\ Cardinality(maps' \ maps) = 1
           /\ abort' = "none" =>
                 /\ Cardinality(carved' \ carved)
                       = ClassCapacity(SizeToAllocate(0, lastOp'.n))
                 /\ \A c \in carved' \ carved :
                       /\ c.size = SizeToAllocate(0, lastOp'.n)
                       /\ Mapped(c.base)' /\ ~Mapped(c.base)
                       /\ StateOf(c.base)' = IF c.base = lastOp'.chunk
                                             THEN CHUNK_ALLOCATED
                                             ELSE CHUNK_AVAILABLE
     /\ (/\ abort' = "none"
         /\ lastOp'.op = "malloc"
         /\ PairsBegun' <= ClassCapacity(SizeToAllocate(0, lastOp'.n))) =>
           Cardinality(maps') = 1]_vars

\* as many pairs as the mapping has chunks, every chunk used once and all of
\* them still in the quarantine, one mapping
C18_Witness ==
  /\ abort = "none"
  /\ lastOp.op = "free"
  /\ Cardinality(carved) >= 2
  /\ nops = 2 * Cardinality(carved)
  /\ Len(Ring) = Cardinality(carved)
  /\ Cardinality(maps) = 1

====
